---- MODULE Spec2Model ----
(***************************************************************************)
(* Insight: a Streamlit chat application over an uploaded CSV file.        *)
(*                                                                         *)
(* The model follows one browser session.  Every user interaction starts   *)
(* a run of main(); a run walks through the sidebar (file upload, clear    *)
(* button), the checks of main(), initialize_agent_if_needed and the two   *)
(* places a question can come from (quick action, chat input).  pc is the  *)
(* position of the running script, "idle" between two runs.  Widget values *)
(* (credential, model, temperature, uploaded file, buttons, chat input)    *)
(* are inputs, read where the script reads them.  A question is handled    *)
(* in four steps (user turn stored, instruction sent, engine done,         *)
(* assistant turn stored), because Streamlit can end the run at the        *)
(* display calls in between when the user acts while the script runs.      *)
(* Plot files live in the working directory, which outlasts the session.   *)
(*                                                                         *)
(* Optional values (Python None) are sequences of length at most one:      *)
(* None is <<>> and Some(x) is <<x>>.                                      *)
(* Strings the code only compares or stores are TLA+ strings; strings the  *)
(* code looks into (the credential, the engine's texts) are sequences.     *)
(***************************************************************************)
EXTENDS Integers, Sequences, FiniteSets, TLC

VARIABLES
    history,                \* st.session_state.history
    quick_query,            \* st.session_state.quick_query
    agent_initialized,      \* st.session_state.agent_initialized
    agent,                  \* st.session_state.agent
    plot_counter,           \* st.session_state.plot_counter
    last_config,            \* st.session_state.last_config (absent reads as None)
    uploaded_file_content,  \* st.session_state.uploaded_file_content (absent reads as None)
    files,                  \* plot image files present in the working directory
    pc,                     \* position of the running script
    uploaded_file,          \* the file the uploader widget holds during this run
    config,                 \* the sidebar's configuration handed to render_chat_interface
    df,                     \* the DataFrame main() loaded for this run
    pending,                \* the question being handled: the query, then the
                            \* instruction with the engine, then the QueryResult
    last                    \* what the last step did: constructor calls, the message
                            \* it showed, the engine's outcome and the QueryResult

vars == <<history, quick_query, agent_initialized, agent, plot_counter, last_config,
          uploaded_file_content, files, pc, uploaded_file, config, df, pending, last>>

session_state == <<history, quick_query, agent_initialized, agent, plot_counter,
                   last_config, uploaded_file_content>>

None == <<>>
Some(x) == <<x>>

Range(s) == {s[i] : i \in 1..Len(s)}

(***************************************************************************)
(* config.py                                                               *)
(***************************************************************************)
MODEL_OPTIONS == <<"llama3-70b-8192", "llama3-8b-8192", "mistral-saba-24b", "compound-beta">>

QUICK_ACTIONS ==
    << [label |-> "Data Summary",          query |-> <<"quick:summary">>],
       [label |-> "Create Visualizations", query |-> <<"quick:visualizations">>],
       [label |-> "Find Key Patterns",     query |-> <<"quick:patterns">>],
       [label |-> "Data Quality Check",    query |-> <<"quick:quality">>] >>

MAX_ROWS == 1000000
ENCODINGS_TO_TRY == <<"utf-8", "latin1", "cp1252">>
DELIMITERS_TO_TRY == <<",", ";", "\t">>
MAX_PLOT_FILES == 10

(***************************************************************************)
(* Bounds of the model.                                                    *)
(***************************************************************************)
\* questions per conversation (between two resets) in the session specification
MaxAskSession == 1
\* questions per conversation in the conversation specification
MaxAsk == 2
\* questions per conversation in the query specification
MaxAskQuery == 1
\* questions per conversation in the plot-file specification
MaxAskLong == 11
\* answers without a plot per conversation in the plot-file specification
MaxNoPlot == 1
\* length of an engine text, in tokens
MaxTextLen == 2

(***************************************************************************)
(* Uploaded bytes and pandas.read_csv.                                     *)
(*                                                                         *)
(* pandas is a library: an uploaded file is described by what read_csv     *)
(* makes of its bytes.  Decoding depends on the encoding alone (a file     *)
(* holds byte sequences some encodings reject; latin1 accepts every        *)
(* byte), tokenizing on the delimiter alone (the three delimiters are      *)
(* ASCII in all three encodings).                                          *)
(***************************************************************************)
ParseError == [ok |-> FALSE, rows |-> 0, cols |-> 0]

RowCounts == {0, 1, MAX_ROWS, MAX_ROWS + 1}
ColCounts == {1}

ParseOutcomes ==
    {ParseError} \cup {[ok |-> TRUE, rows |-> r, cols |-> c] : r \in RowCounts, c \in ColCounts}

AllFiles ==
    [name : {"data.csv"},
     undecodable : SUBSET {"utf-8", "cp1252"},
     parse : [Range(DELIMITERS_TO_TRY) -> ParseOutcomes]]

\* pd.read_csv(io.BytesIO(raw), encoding=encoding, delimiter=delimiter)
read_csv(raw, encoding, delimiter) ==
    IF encoding \in raw.undecodable THEN ParseError ELSE raw.parse[delimiter]

\* df.empty
empty(t) == t.rows = 0 \/ t.cols = 0

\* the table read_csv returned, as the DataFrame object the session works on
DataFrame(raw, encoding, delimiter) ==
    LET t == read_csv(raw, encoding, delimiter)
    IN  [raw |-> raw, encoding |-> encoding, delimiter |-> delimiter,
         rows |-> t.rows, cols |-> t.cols]

(***************************************************************************)
(* utils.py: validate_csv and load_dataframe_from_session.  Both walk the  *)
(* encodings (outer loop) and the delimiters (inner loop); i and j are the *)
(* positions the two loops have reached.                                   *)
(***************************************************************************)
\* validate_csv going on to the next combination when the table is too large
RECURSIVE validate_csv_loop_skip_large(_, _, _)
validate_csv_loop_skip_large(raw_data, i, j) ==
    IF i > Len(ENCODINGS_TO_TRY)
    THEN [is_valid |-> FALSE, message |-> "Could not parse CSV file",
          encoding |-> None, delimiter |-> None]
    ELSE IF j > Len(DELIMITERS_TO_TRY)
    THEN validate_csv_loop_skip_large(raw_data, i + 1, 1)
    ELSE LET encoding == ENCODINGS_TO_TRY[i]
             delimiter == DELIMITERS_TO_TRY[j]
             t == read_csv(raw_data, encoding, delimiter)
         IN  IF t.ok /\ ~empty(t) /\ t.cols > 0 /\ t.rows <= MAX_ROWS
             THEN [is_valid |-> TRUE, message |-> "File validation successful",
                   encoding |-> Some(encoding), delimiter |-> Some(delimiter)]
             ELSE validate_csv_loop_skip_large(raw_data, i, j + 1)

RECURSIVE validate_csv_loop(_, _, _)
validate_csv_loop(raw_data, i, j) ==
    IF i > Len(ENCODINGS_TO_TRY)
    THEN [is_valid |-> FALSE, message |-> "Could not parse CSV file",
          encoding |-> None, delimiter |-> None]
    ELSE IF j > Len(DELIMITERS_TO_TRY)
    THEN validate_csv_loop(raw_data, i + 1, 1)
    ELSE LET encoding == ENCODINGS_TO_TRY[i]
             delimiter == DELIMITERS_TO_TRY[j]
             t == read_csv(raw_data, encoding, delimiter)
         IN  IF t.ok /\ ~empty(t) /\ t.cols > 0
             THEN IF t.rows > MAX_ROWS
                  THEN [is_valid |-> FALSE, message |-> "File is too large",
                        encoding |-> Some(encoding), delimiter |-> Some(delimiter)]
                  ELSE [is_valid |-> TRUE, message |-> "File validation successful",
                        encoding |-> Some(encoding), delimiter |-> Some(delimiter)]
             ELSE validate_csv_loop(raw_data, i, j + 1)

\* raw_data is what uploaded_file.read() returns
validate_csv(raw_data) == validate_csv_loop(raw_data, 1, 1)

\* load_dataframe_from_session taking the first table read without error, empty or not
RECURSIVE load_dataframe_loop_accept_empty(_, _, _)
load_dataframe_loop_accept_empty(content, i, j) ==
    IF i > Len(ENCODINGS_TO_TRY)
    THEN [df |-> None, error |-> Some("Could not load DataFrame")]
    ELSE IF j > Len(DELIMITERS_TO_TRY)
    THEN load_dataframe_loop_accept_empty(content, i + 1, 1)
    ELSE LET encoding == ENCODINGS_TO_TRY[i]
             delimiter == DELIMITERS_TO_TRY[j]
             t == read_csv(content, encoding, delimiter)
         IN  IF t.ok
             THEN [df |-> Some(DataFrame(content, encoding, delimiter)), error |-> None]
             ELSE load_dataframe_loop_accept_empty(content, i, j + 1)

RECURSIVE load_dataframe_loop(_, _, _)
load_dataframe_loop(content, i, j) ==
    IF i > Len(ENCODINGS_TO_TRY)
    THEN [df |-> None, error |-> Some("Could not load DataFrame")]
    ELSE IF j > Len(DELIMITERS_TO_TRY)
    THEN load_dataframe_loop(content, i + 1, 1)
    ELSE LET encoding == ENCODINGS_TO_TRY[i]
             delimiter == DELIMITERS_TO_TRY[j]
             t == read_csv(content, encoding, delimiter)
         IN  IF t.ok /\ ~empty(t) /\ t.cols > 0
             THEN [df |-> Some(DataFrame(content, encoding, delimiter)), error |-> None]
             ELSE load_dataframe_loop(content, i, j + 1)

\* the argument is st.session_state.uploaded_file_content
load_dataframe_from_session(content) ==
    IF content = None
    THEN [df |-> None, error |-> Some("No file uploaded")]
    ELSE load_dataframe_loop(content[1], 1, 1)

\* get_data_summary, as far as the row and column counts go
get_data_summary(d) == [rows |-> d.rows, columns |-> d.cols]

(***************************************************************************)
(* Credentials: sequences of characters.                                   *)
(***************************************************************************)
KeyPrefix == <<"g", "s", "k", "_">>

startswith(s, prefix) ==
    /\ Len(s) >= Len(prefix)
    /\ SubSeq(s, 1, Len(prefix)) = prefix

\* utils.validate_api_key
validate_api_key(api_key) ==
    IF api_key = <<>> THEN [is_valid |-> FALSE, message |-> "API key is required"]
    ELSE IF ~startswith(api_key, KeyPrefix)
    THEN [is_valid |-> FALSE, message |-> "Invalid API key format"]
    ELSE [is_valid |-> TRUE, message |-> "API key format is valid"]

(***************************************************************************)
(* agent.py: DataAnalysisAgent.                                            *)
(***************************************************************************)
\* DataAnalysisAgent.__init__
DataAnalysisAgent(api_key, model, temperature) ==
    [api_key |-> api_key, model |-> model, temperature |-> temperature, agent |-> None]

\* create_pandas_dataframe_agent(ChatGroq(model, api_key, temperature), df, ...)
create_pandas_dataframe_agent(self, d) ==
    [model |-> self.model, api_key |-> self.api_key, temperature |-> self.temperature,
     df |-> d]

\* what the constructors ChatGroq(...) and create_pandas_dataframe_agent(...)
\* do when they are called: they return the handle, one of them raises an
\* Exception, or one of them is left by an exception that is no Exception
ConstructorOutcomes == {"returns", "raises", "exits"}

\* initialize_agent with the format check reduced to "a key was given"
initialize_agent_any_key(self, d, constructors) ==
    IF self.api_key = <<>>
    THEN [raised |-> TRUE, exits |-> FALSE, self |-> self, constructed |-> FALSE]
    ELSE IF constructors = "returns"
    THEN [raised |-> FALSE, exits |-> FALSE,
          self |-> [self EXCEPT !.agent = Some(create_pandas_dataframe_agent(self, d))],
          constructed |-> TRUE]
    ELSE IF constructors = "raises"
    THEN [raised |-> TRUE, exits |-> FALSE, self |-> self, constructed |-> TRUE]
    ELSE [raised |-> FALSE, exits |-> TRUE, self |-> self, constructed |-> TRUE]

\* DataAnalysisAgent.initialize_agent: the object afterwards, whether the
\* call raised "Failed to initialize agent" (the ValueError of the format
\* check and every Exception of the constructors are caught and raised
\* again under that text, self.agent still None), whether it was left by
\* an exception that `except Exception' does not catch, and whether it
\* reached the constructors of the engine handle
initialize_agent(self, d, constructors) ==
    IF self.api_key = <<>> \/ ~startswith(self.api_key, KeyPrefix)
    THEN [raised |-> TRUE, exits |-> FALSE, self |-> self, constructed |-> FALSE]
    ELSE IF constructors = "returns"
    THEN [raised |-> FALSE, exits |-> FALSE,
          self |-> [self EXCEPT !.agent = Some(create_pandas_dataframe_agent(self, d))],
          constructed |-> TRUE]
    ELSE IF constructors = "raises"
    THEN [raised |-> TRUE, exits |-> FALSE, self |-> self, constructed |-> TRUE]
    ELSE [raised |-> FALSE, exits |-> TRUE, self |-> self, constructed |-> TRUE]

(***************************************************************************)
(* Texts of the reasoning engine: sequences of tokens.  MARKER stands for  *)
(* the substring "Agent stopped due to max iterations", " " for            *)
(* whitespace and "x" for any other stretch of text.                       *)
(***************************************************************************)
MARKER == "Agent stopped due to max iterations"
Tokens == {"x", " ", MARKER}

TextsUpTo(n) == UNION {[1..k -> Tokens] : k \in 0..n}

\* the literals of _process_response and _handle_query_error
AnalysisPrefix == <<"**Analysis Results:** ... here's what was processed:">>
Tip == <<"Tip: hit the iteration limit; ask more specific questions">>
SoftenedError == <<"The analysis was quite extensive and reached the processing limit ...">>
ErrorPrefix == <<"Error processing query: ">>

\* marker in text
contains(text, marker) == \E i \in 1..Len(text) : text[i] = marker

\* text.replace(marker, "")
replace(text, marker) == SelectSeq(text, LAMBDA tok : tok # marker)

RECURSIVE lstrip(_)
lstrip(text) ==
    IF text # <<>> /\ Head(text) = " " THEN lstrip(Tail(text)) ELSE text

RECURSIVE rstrip(_)
rstrip(text) ==
    IF text # <<>> /\ text[Len(text)] = " "
    THEN rstrip(SubSeq(text, 1, Len(text) - 1))
    ELSE text

\* text.strip()
strip(text) == rstrip(lstrip(text))

\* DataAnalysisAgent._process_response; response is the dict the engine returns
process_response(response) ==
    LET output == response.output
    IN  IF contains(output, MARKER)
        THEN AnalysisPrefix \o strip(replace(output, MARKER)) \o Tip
        ELSE output

\* plot_filename without the sequence number in the name
plot_filename_unnumbered(n) == <<"temp_plot", 0>>

\* f"temp_plot_{n}.png" and the legacy name "temp_plot.png"
plot_filename(n) == <<"temp_plot", n>>
LegacyPlot == <<"temp_plot">>

\* _find_plot_file probing the legacy name first
find_plot_file_legacy_first(filename, fs) ==
    IF LegacyPlot \in fs THEN Some(LegacyPlot)
    ELSE IF filename \in fs THEN Some(filename)
    ELSE None

\* DataAnalysisAgent._find_plot_file; fs is the set of files that exist
find_plot_file(filename, fs) ==
    IF filename \in fs THEN Some(filename)
    ELSE IF LegacyPlot \in fs THEN Some(LegacyPlot)
    ELSE None

\* DataAnalysisAgent._handle_query_error; error_msg is str(error)
handle_query_error(error_msg) ==
    IF contains(error_msg, MARKER)
    THEN [output |-> SoftenedError, plot_path |-> None, success |-> FALSE]
    ELSE [output |-> ErrorPrefix \o error_msg, plot_path |-> None, success |-> FALSE]

\* DataAnalysisAgent._create_enhanced_query
create_enhanced_query(user_query, df_info, filename) ==
    [query |-> user_query, shape |-> df_info.shape, columns |-> df_info.columns,
     savefig |-> filename]

(***************************************************************************)
(* What the engine does with one instruction: it returns a text or raises  *)
(* an exception with a text, and the code it ran may have saved a plot     *)
(* under the file name of the instruction, under the legacy name, or both. *)
(***************************************************************************)
EngineOutcomes(texts, saves) ==
    [raises : BOOLEAN, text : texts, saves : saves]

\* the files on disk once the engine is done
engine_files(fs, outcome, instruction) ==
    fs \cup (IF "numbered" \in outcome.saves THEN {instruction.savefig} ELSE {})
       \cup (IF "legacy" \in outcome.saves THEN {LegacyPlot} ELSE {})

\* DataAnalysisAgent.query from the engine call on (the try block): the
\* QueryResult, given the outcome of self.agent.invoke and the files on disk
query_result(outcome, filename, fs) ==
    IF outcome.raises
    THEN handle_query_error(outcome.text)
    ELSE [output |-> process_response([output |-> outcome.text]),
          plot_path |-> find_plot_file(filename, fs),
          success |-> TRUE]

\* the history entry _handle_user_query stores for a QueryResult
history_entry(response) ==
    IF response.plot_path # None
    THEN [role |-> "assistant", content |-> response.output,
          plot_path |-> response.plot_path[1]]
    ELSE [role |-> "assistant", content |-> response.output]

(***************************************************************************)
(* The session.                                                            *)
(***************************************************************************)
\* a step that built no handle, showed no message and asked the engine nothing
Quiet == [built |-> FALSE, message |-> None, outcome |-> None, response |-> None]

\* plot files an earlier session or process may have left in the working
\* directory: nothing removes temp_plot.png, and clear_conversation only
\* removes numbered files below MAX_PLOT_FILES
LeftoverFiles == {LegacyPlot, plot_filename(1), plot_filename(MAX_PLOT_FILES)}

\* utils.initialize_session_state on a new session: the keys it sets;
\* last_config and uploaded_file_content are absent and read as None
initialize_session_state ==
    /\ history = <<>>
    /\ quick_query = None
    /\ agent_initialized = FALSE
    /\ agent = None
    /\ plot_counter = 0

\* a new session: the session keys as initialize_session_state sets them,
\* the working directory as earlier sessions left it
Init ==
    /\ initialize_session_state
    /\ last_config = None
    /\ uploaded_file_content = None
    /\ files \in SUBSET LeftoverFiles
    /\ pc = "idle"
    /\ uploaded_file = None
    /\ config = None
    /\ df = None
    /\ pending = None
    /\ last = Quiet

\* ui_components._render_file_upload, the first code of a run that touches
\* the session.  A run started by the user finds any of the uploads in the
\* widget (or none); a run started by st.rerun() finds the file of the run
\* it replaces.
RenderFileUpload(uploads) ==
    /\ pc \in {"idle", "rerun"}
    /\ \E file \in {None} \cup {Some(f) : f \in uploads} :
          /\ pc = "rerun" => file = uploaded_file
          /\ uploaded_file' = file
          /\ IF file # None
             THEN LET v == validate_csv(file[1])
                  IN  /\ uploaded_file_content' =
                             IF v.is_valid THEN Some(file[1]) ELSE None
                      /\ last' = [Quiet EXCEPT !.message = Some(v.message)]
             ELSE /\ UNCHANGED uploaded_file_content
                  /\ last' = Quiet
    /\ pc' = "clear_button"
    /\ UNCHANGED <<history, quick_query, agent_initialized, agent, plot_counter,
                   last_config, files, config, df, pending>>

\* utils.clear_conversation, called when "Clear Conversation" was pressed;
\* st.rerun() ends the run and starts the script again
ClearConversation ==
    /\ pc = "clear_button"
    /\ history' = <<>>
    /\ agent_initialized' = FALSE
    /\ agent' = None
    /\ plot_counter' = 0
    /\ files' = files \ {plot_filename(i) : i \in 0..(MAX_PLOT_FILES - 1)}
    /\ pc' = "rerun"
    /\ last' = Quiet
    /\ UNCHANGED <<quick_query, last_config, uploaded_file_content, uploaded_file,
                   config, df, pending>>

\* utils.clear_conversation when os.remove raises on temp_plot_<k>.png: the
\* session is reset, the files below k are gone, the exception leaves
\* main() and st.rerun() is not reached
ClearConversationRaises ==
    /\ pc = "clear_button"
    /\ \E k \in 0..(MAX_PLOT_FILES - 1) :
          /\ plot_filename(k) \in files
          /\ files' = files \ {plot_filename(i) : i \in 0..(k - 1)}
    /\ history' = <<>>
    /\ agent_initialized' = FALSE
    /\ agent' = None
    /\ plot_counter' = 0
    /\ pc' = "idle"
    /\ uploaded_file' = None
    /\ last' = [Quiet EXCEPT !.message = Some("OSError")]
    /\ UNCHANGED <<quick_query, last_config, uploaded_file_content, config, df, pending>>

\* utils.cleanup_plot_files: the files temp_plot_0.png ..
\* temp_plot_<MAX_PLOT_FILES - 1>.png are removed, an os.remove that raises
\* (the paths in `failing') is passed over and the sweep goes on
cleanup_plot_files(fs, failing) ==
    fs \ {plot_filename(i) : i \in {j \in 0..(MAX_PLOT_FILES - 1) :
                                        plot_filename(j) \notin failing}}

\* utils.cleanup_plot_files called between two runs: no session key is
\* touched and the script is not started again.  Nothing in main() or in
\* the modules it imports calls the function, so it is no step of a run
\* and no specification below takes it.
CleanupPlotFiles ==
    /\ pc = "idle"
    /\ \E failing \in SUBSET files : files' = cleanup_plot_files(files, failing)
    /\ UNCHANGED <<session_state, pc, uploaded_file, config, df, pending, last>>

\* render_sidebar when the button was not pressed
NoClear ==
    /\ pc = "clear_button"
    /\ pc' = "main"
    /\ last' = Quiet
    /\ UNCHANGED <<session_state, files, uploaded_file, config, df, pending>>

\* main.main after render_sidebar: the early returns
MainReturn(configs) ==
    /\ pc = "main"
    /\ \E c \in configs :
          \/ c[1] = <<>>
          \/ uploaded_file_content = None
          \/ load_dataframe_from_session(uploaded_file_content).error # None
    /\ pc' = "idle"
    /\ uploaded_file' = None
    /\ last' = Quiet
    /\ UNCHANGED <<session_state, files, config, df, pending>>

\* the user turns of the conversation
UserTurns == {i \in 1..Len(history) : history[i].role = "user"}

\* main.main up to render_quick_actions, one of the buttons pressed:
\* the query is parked in the session and the script starts again
QuickAction(configs, buttons, max_ask) ==
    /\ pc = "main"
    /\ Cardinality(UserTurns) < max_ask
    /\ \E c \in configs : c[1] # <<>>
    /\ load_dataframe_from_session(uploaded_file_content).error = None
    /\ \E i \in buttons : quick_query' = Some(QUICK_ACTIONS[i].query)
    /\ pc' = "rerun"
    /\ last' = Quiet
    /\ UNCHANGED <<history, agent_initialized, agent, plot_counter, last_config,
                   uploaded_file_content, files, uploaded_file, config, df, pending>>

\* main.main up to the call of render_chat_interface(api_key, model, temperature, df)
MainChat(configs) ==
    /\ pc = "main"
    /\ \E c \in configs :
          /\ c[1] # <<>>
          /\ config' = Some(c)
    /\ LET loaded == load_dataframe_from_session(uploaded_file_content)
       IN  /\ loaded.error = None
           /\ df' = loaded.df
    /\ pc' = "chat"
    /\ last' = Quiet
    /\ UNCHANGED <<session_state, files, uploaded_file, pending>>

\* initialize_agent_if_needed with the temperature left out of the comparison
initialize_agent_if_needed_no_temperature(api_key, model, temperature, d, constructors) ==
    IF \/ agent = None
       \/ ~agent_initialized
       \/ last_config = None
       \/ <<last_config[1][1], last_config[1][2]>> # <<api_key, model>>
    THEN LET r == initialize_agent(DataAnalysisAgent(api_key, model, temperature), d,
                                   constructors)
         IN  IF r.exits
             THEN [agent |-> agent, agent_initialized |-> agent_initialized,
                   last_config |-> last_config, constructed |-> r.constructed,
                   error |-> None, returns |-> FALSE, exits |-> TRUE]
             ELSE IF r.raised
             THEN [agent |-> agent, agent_initialized |-> agent_initialized,
                   last_config |-> last_config, constructed |-> r.constructed,
                   error |-> Some("Failed to initialize agent"), returns |-> FALSE,
                   exits |-> FALSE]
             ELSE [agent |-> Some(r.self), agent_initialized |-> TRUE,
                   last_config |-> Some(<<api_key, model, temperature>>),
                   constructed |-> r.constructed, error |-> None, returns |-> TRUE,
                   exits |-> FALSE]
    ELSE [agent |-> agent, agent_initialized |-> agent_initialized,
          last_config |-> last_config, constructed |-> FALSE, error |-> None,
          returns |-> TRUE, exits |-> FALSE]

\* initialize_agent_if_needed recording last_config before the handle is built
initialize_agent_if_needed_config_first(api_key, model, temperature, d, constructors) ==
    IF \/ agent = None
       \/ ~agent_initialized
       \/ last_config # Some(<<api_key, model, temperature>>)
    THEN LET r == initialize_agent(DataAnalysisAgent(api_key, model, temperature), d,
                                   constructors)
         IN  IF r.exits
             THEN [agent |-> agent, agent_initialized |-> agent_initialized,
                   last_config |-> Some(<<api_key, model, temperature>>), constructed |-> r.constructed,
                   error |-> None, returns |-> FALSE, exits |-> TRUE]
             ELSE IF r.raised
             THEN [agent |-> agent, agent_initialized |-> agent_initialized,
                   last_config |-> Some(<<api_key, model, temperature>>), constructed |-> r.constructed,
                   error |-> Some("Failed to initialize agent"), returns |-> FALSE,
                   exits |-> FALSE]
             ELSE [agent |-> Some(r.self), agent_initialized |-> TRUE,
                   last_config |-> Some(<<api_key, model, temperature>>),
                   constructed |-> r.constructed, error |-> None, returns |-> TRUE,
                   exits |-> FALSE]
    ELSE [agent |-> agent, agent_initialized |-> agent_initialized,
          last_config |-> last_config, constructed |-> FALSE, error |-> None,
          returns |-> TRUE, exits |-> FALSE]

\* agent.initialize_agent_if_needed(api_key, model, temperature, df): the
\* session afterwards and how the call ends: it returns True, it catches
\* the Exception of initialize_agent (st.error and `return False' follow),
\* or it is left by an exception that is no Exception
initialize_agent_if_needed(api_key, model, temperature, d, constructors) ==
    IF \/ agent = None
       \/ ~agent_initialized
       \/ last_config # Some(<<api_key, model, temperature>>)
    THEN LET r == initialize_agent(DataAnalysisAgent(api_key, model, temperature), d,
                                   constructors)
         IN  IF r.exits
             THEN [agent |-> agent, agent_initialized |-> agent_initialized,
                   last_config |-> last_config, constructed |-> r.constructed,
                   error |-> None, returns |-> FALSE, exits |-> TRUE]
             ELSE IF r.raised
             THEN [agent |-> agent, agent_initialized |-> agent_initialized,
                   last_config |-> last_config, constructed |-> r.constructed,
                   error |-> Some("Failed to initialize agent"), returns |-> FALSE,
                   exits |-> FALSE]
             ELSE [agent |-> Some(r.self), agent_initialized |-> TRUE,
                   last_config |-> Some(<<api_key, model, temperature>>),
                   constructed |-> r.constructed, error |-> None, returns |-> TRUE,
                   exits |-> FALSE]
    ELSE [agent |-> agent, agent_initialized |-> agent_initialized,
          last_config |-> last_config, constructed |-> FALSE, error |-> None,
          returns |-> TRUE, exits |-> FALSE]

\* render_chat_interface, first statement: the call of
\* initialize_agent_if_needed up to `return True', up to the except branch
\* (st.error is the next call), or to the exception that leaves main()
InitializeAgentIfNeeded ==
    /\ pc = "chat"
    /\ \E constructors \in ConstructorOutcomes :
          LET r == initialize_agent_if_needed(config[1][1], config[1][2], config[1][3],
                                              df[1], constructors)
          IN  /\ agent' = r.agent
              /\ agent_initialized' = r.agent_initialized
              /\ last_config' = r.last_config
              /\ IF r.exits
                 THEN /\ pc' = "idle"
                      /\ last' = [Quiet EXCEPT !.built = r.constructed,
                                               !.message = Some("BaseException")]
                      /\ df' = None
                      /\ uploaded_file' = None
                 ELSE /\ pc' = IF r.returns THEN "quick_query" ELSE "init_error"
                      /\ last' = [Quiet EXCEPT !.built = r.constructed]
                      /\ UNCHANGED <<df, uploaded_file>>
    /\ config' = None
    /\ UNCHANGED <<history, quick_query, plot_counter, uploaded_file_content, files, pending>>

\* the except branch of initialize_agent_if_needed: st.error shows the
\* failure, the function returns False and render_chat_interface returns
ShowInitError ==
    /\ pc = "init_error"
    /\ last' = [last EXCEPT !.message = Some("Failed to initialize agent")]
    /\ pc' = "idle"
    /\ df' = None
    /\ uploaded_file' = None
    /\ UNCHANGED <<session_state, files, config, pending>>

\* _handle_user_query, first statement: the user turn is stored; the
\* display calls that follow (st.chat_message, st.markdown, st.spinner)
\* come before agent.query
AppendUserTurn(user_query, origin) ==
    /\ history' = Append(history, [role |-> "user", content |-> user_query])
    /\ pending' = Some([user_query |-> user_query, origin |-> origin])
    /\ pc' = "user_turn"
    /\ last' = Quiet
    /\ UNCHANGED <<quick_query, agent_initialized, agent, plot_counter, last_config,
                   uploaded_file_content, files, uploaded_file, config, df>>

\* render_chat_interface: a parked quick query is handled first
HandleQuickQuery(max_ask) ==
    /\ pc = "quick_query"
    /\ quick_query # None
    /\ Cardinality(UserTurns) < max_ask
    /\ AppendUserTurn(quick_query[1], "quick_query")

NoQuickQuery ==
    /\ pc = "quick_query"
    /\ quick_query = None
    /\ pc' = "chat_input"
    /\ last' = Quiet
    /\ UNCHANGED <<session_state, files, uploaded_file, config, df, pending>>

\* render_chat_interface: st.chat_input returned a question
ChatInput(questions, max_ask) ==
    /\ pc = "chat_input"
    /\ Cardinality(UserTurns) < max_ask
    /\ \E user_query \in questions : AppendUserTurn(user_query, "chat_input")

\* render_chat_interface: st.chat_input returned nothing, the run ends
NoChatInput ==
    /\ pc = "chat_input"
    /\ pc' = "idle"
    /\ df' = None
    /\ uploaded_file' = None
    /\ last' = Quiet
    /\ UNCHANGED <<session_state, files, config, pending>>

\* Streamlit ends the run at a display call when the user has acted while
\* the script was running.  Every program point but the engine call is
\* followed by display calls: render_main_header when the script starts
\* again, st.button("Clear Conversation") once the upload was stored, the
\* overview and st.subheader("Quick Actions") in main, st.subheader of
\* render_chat_interface, st.chat_message of _render_conversation_history
\* once the handle is there, st.error once building it has failed,
\* st.chat_input, st.chat_message / st.markdown /
\* st.spinner after the user turn was stored, st.markdown / st.error /
\* st.image / st.success before the assistant turn is stored, and the
\* exits of st.spinner and st.chat_message after it.  What the run stored
\* in the session stays; what it held in local variables is gone.
RerunRequested ==
    /\ pc \in {"rerun", "clear_button", "main", "chat", "init_error", "quick_query",
               "chat_input", "user_turn", "response", "stored"}
    /\ pc' = "idle"
    /\ pending' = None
    /\ config' = None
    /\ df' = None
    /\ uploaded_file' = None
    /\ last' = Quiet
    /\ UNCHANGED <<session_state, files>>

\* DataAnalysisAgent.query up to the engine call: the counter advanced,
\* the instruction sent
Dispatch ==
    /\ pc = "user_turn"
    /\ IF agent[1].agent = None
       THEN \* "Agent not initialized" is raised outside the try block
            /\ pc' = "idle"
            /\ df' = None
            /\ uploaded_file' = None
            /\ pending' = None
            /\ UNCHANGED plot_counter
       ELSE LET df_info == [shape |-> <<df[1].rows, df[1].cols>>, columns |-> df[1].cols]
                filename == plot_filename(plot_counter + 1)
            IN  /\ plot_counter' = plot_counter + 1
                /\ pending' = Some([instruction |->
                                        create_enhanced_query(pending[1].user_query,
                                                              df_info, filename),
                                    plot_filename |-> filename,
                                    engine |-> agent[1].agent[1],
                                    origin |-> pending[1].origin])
                /\ pc' = "engine"
                /\ UNCHANGED <<df, uploaded_file>>
    /\ last' = Quiet
    /\ UNCHANGED <<history, quick_query, agent_initialized, agent, last_config,
                   uploaded_file_content, files, config>>

\* the engine leaves invoke with an exception that is no Exception
\* (SystemExit, KeyboardInterrupt, GeneratorExit): query does not catch
\* it, the run ends with the counter advanced and no QueryResult
EngineExits(outcomes) ==
    /\ pc = "engine"
    /\ \E outcome \in outcomes :
          /\ outcome.raises
          /\ files' = engine_files(files, outcome, pending[1].instruction)
          /\ last' = [Quiet EXCEPT !.outcome = Some(outcome)]
    /\ pc' = "idle"
    /\ pending' = None
    /\ df' = None
    /\ uploaded_file' = None
    /\ UNCHANGED <<session_state, config>>

\* the rest of DataAnalysisAgent.query: the engine answers or raises an
\* Exception, query turns that into the QueryResult
EngineReturn(outcomes) ==
    /\ pc = "engine"
    /\ \E outcome \in outcomes :
          LET fs == engine_files(files, outcome, pending[1].instruction)
              response == query_result(outcome, pending[1].plot_filename, fs)
          IN  /\ files' = fs
              /\ pending' = Some([origin |-> pending[1].origin, response |-> response])
              /\ last' = [Quiet EXCEPT !.outcome = Some(outcome),
                                       !.response = Some(response)]
    /\ pc' = "response"
    /\ UNCHANGED <<session_state, uploaded_file, config, df>>

\* the last statement of _handle_user_query, once the result was
\* displayed: the assistant turn is stored.  A question from st.chat_input
\* is the last thing the run does; after a quick query the with-blocks are
\* left (st.spinner, st.chat_message) before render_chat_interface goes
\* on.  `last' keeps the outcome and the QueryResult that was stored.
StoreResponse ==
    /\ pc = "response"
    /\ history' = Append(history, history_entry(pending[1].response))
    /\ IF pending[1].origin = "quick_query"
       THEN /\ pc' = "stored"
            /\ UNCHANGED <<df, uploaded_file>>
       ELSE /\ pc' = "idle"
            /\ df' = None
            /\ uploaded_file' = None
    /\ pending' = None
    /\ UNCHANGED <<quick_query, agent_initialized, agent, plot_counter, last_config,
                   uploaded_file_content, files, config, last>>

\* render_chat_interface after _handle_user_query returned:
\* st.session_state.quick_query = None
ClearQuickQuery ==
    /\ pc = "stored"
    /\ quick_query' = None
    /\ pc' = "chat_input"
    /\ UNCHANGED <<history, agent_initialized, agent, plot_counter, last_config,
                   uploaded_file_content, files, uploaded_file, config, df,
                   pending, last>>

(***************************************************************************)
(* Inputs.                                                                 *)
(***************************************************************************)
NoKey == <<>>
sk_abc == <<"s", "k", "_", "a", "b", "c">>
gsk_a == <<"g", "s", "k", "_", "a">>
gsk_b == <<"g", "s", "k", "_", "b">>

Credentials == {NoKey, sk_abc, gsk_a, gsk_b}
Models == {MODEL_OPTIONS[1], MODEL_OPTIONS[2]}
\* the slider's value in tenths: 0.0 and 0.7
Temperatures == {0, 7}

Configs == Credentials \X Models \X Temperatures

Table(r, c) == [ok |-> TRUE, rows |-> r, cols |-> c]

\* plain comma-separated UTF-8
SalesCsv ==
    [name |-> "sales.csv", undecodable |-> {},
     parse |-> [d \in Range(DELIMITERS_TO_TRY) |-> IF d = "," THEN Table(1, 2) ELSE Table(1, 1)]]

\* semicolon-separated Latin-1 with decimal commas: not UTF-8, and the
\* comma tokenizer fails on it
SurveyCsv ==
    [name |-> "survey.csv", undecodable |-> {"utf-8"},
     parse |-> [d \in Range(DELIMITERS_TO_TRY) |->
                   IF d = "," THEN ParseError
                   ELSE IF d = ";" THEN Table(MAX_ROWS, 2) ELSE Table(MAX_ROWS, 1)]]

\* one row too many
HugeCsv ==
    [name |-> "huge.csv", undecodable |-> {},
     parse |-> [d \in Range(DELIMITERS_TO_TRY) |-> Table(MAX_ROWS + 1, 1)]]

Questions == {<<"question">>}
\* the quick-action button the user presses: "Data Summary"
QuickButtons == {1}

\* the engine answers in plain text or raises, and may save the plot it was asked for
SessionOutcomes == EngineOutcomes({<<"x">>}, {{}, {"numbered"}})

\* every text up to MaxTextLen, every combination of saved files
QueryOutcomes == EngineOutcomes(TextsUpTo(MaxTextLen), SUBSET {"numbered", "legacy"})

\* assistant turns of the conversation that carry no image
NoPlotTurns ==
    {i \in 1..Len(history) :
        history[i].role = "assistant" /\ "plot_path" \notin DOMAIN history[i]}

\* the engine answers in plain text and saves the plot it was asked for,
\* except for at most MaxNoPlot answers per conversation
LongOutcomes ==
    IF Cardinality(NoPlotTurns) < MaxNoPlot
    THEN EngineOutcomes({<<"x">>}, {{}, {"numbered"}}) \ {o \in EngineOutcomes({<<"x">>}, {{}, {"numbered"}}) : o.raises}
    ELSE {[raises |-> FALSE, text |-> <<"x">>, saves |-> {"numbered"}]}

(***************************************************************************)
(* Specifications.                                                         *)
(***************************************************************************)
\* the session: every configuration, three uploads, MaxAskSession questions
\* per conversation
Next ==
    \/ RenderFileUpload({SalesCsv, SurveyCsv, HugeCsv})
    \/ ClearConversation
    \/ ClearConversationRaises
    \/ NoClear
    \/ MainReturn(Configs)
    \/ QuickAction(Configs, QuickButtons, MaxAskSession)
    \/ MainChat(Configs)
    \/ InitializeAgentIfNeeded
    \/ ShowInitError
    \/ HandleQuickQuery(MaxAskSession)
    \/ NoQuickQuery
    \/ ChatInput(Questions, MaxAskSession)
    \/ NoChatInput
    \/ RerunRequested
    \/ Dispatch
    \/ EngineExits(SessionOutcomes)
    \/ EngineReturn(SessionOutcomes)
    \/ StoreResponse
    \/ ClearQuickQuery

Spec == Init /\ [][Next]_vars

\* the configurations of the conversation: one credential, one model, both
\* temperatures
ConversationConfigs == {<<gsk_a, MODEL_OPTIONS[1], t>> : t \in Temperatures}

\* the conversation: the temperature may change between runs, one upload,
\* MaxAsk questions per conversation, from the chat input and from the
\* quick actions
NextConversation ==
    \/ RenderFileUpload({SalesCsv})
    \/ ClearConversation
    \/ ClearConversationRaises
    \/ NoClear
    \/ MainReturn(ConversationConfigs)
    \/ QuickAction(ConversationConfigs, QuickButtons, MaxAsk)
    \/ MainChat(ConversationConfigs)
    \/ InitializeAgentIfNeeded
    \/ ShowInitError
    \/ HandleQuickQuery(MaxAsk)
    \/ NoQuickQuery
    \/ ChatInput(Questions, MaxAsk)
    \/ NoChatInput
    \/ RerunRequested
    \/ Dispatch
    \/ EngineExits(SessionOutcomes)
    \/ EngineReturn(SessionOutcomes)
    \/ StoreResponse
    \/ ClearQuickQuery

SpecConversation == Init /\ [][NextConversation]_vars

\* the loader: every file, a credential of the wrong format
NextLoader ==
    \/ RenderFileUpload(AllFiles)
    \/ ClearConversation
    \/ ClearConversationRaises
    \/ NoClear
    \/ MainReturn({<<sk_abc, MODEL_OPTIONS[1], 0>>})
    \/ MainChat({<<sk_abc, MODEL_OPTIONS[1], 0>>})
    \/ InitializeAgentIfNeeded
    \/ ShowInitError
    \/ RerunRequested

SpecLoader == Init /\ [][NextLoader]_vars

\* one question: every engine text, every combination of saved files
NextQuery ==
    \/ RenderFileUpload({SalesCsv})
    \/ ClearConversation
    \/ ClearConversationRaises
    \/ NoClear
    \/ MainReturn({<<gsk_a, MODEL_OPTIONS[1], 0>>})
    \/ QuickAction({<<gsk_a, MODEL_OPTIONS[1], 0>>}, QuickButtons, MaxAskQuery)
    \/ MainChat({<<gsk_a, MODEL_OPTIONS[1], 0>>})
    \/ InitializeAgentIfNeeded
    \/ ShowInitError
    \/ HandleQuickQuery(MaxAskQuery)
    \/ NoQuickQuery
    \/ ChatInput(Questions, MaxAskQuery)
    \/ NoChatInput
    \/ RerunRequested
    \/ Dispatch
    \/ EngineExits(QueryOutcomes)
    \/ EngineReturn(QueryOutcomes)
    \/ StoreResponse
    \/ ClearQuickQuery

SpecQuery == Init /\ [][NextQuery]_vars

\* long conversations, every run left to finish: the plot counter passes
\* MAX_PLOT_FILES
NextLong ==
    \/ RenderFileUpload({SalesCsv})
    \/ ClearConversation
    \/ ClearConversationRaises
    \/ NoClear
    \/ MainReturn({<<gsk_a, MODEL_OPTIONS[1], 0>>})
    \/ MainChat({<<gsk_a, MODEL_OPTIONS[1], 0>>})
    \/ InitializeAgentIfNeeded
    \/ ShowInitError
    \/ NoQuickQuery
    \/ ChatInput(Questions, MaxAskLong)
    \/ NoChatInput
    \/ Dispatch
    \/ EngineReturn(LongOutcomes)
    \/ StoreResponse

SpecLong == Init /\ [][NextLong]_vars

(***************************************************************************)
(* Properties.                                                             *)
(***************************************************************************)
\* the step is the call of initialize_agent_if_needed: it returned True
\* (the run goes on to the history), it caught the failure of
\* initialize_agent (st.error is next), or an exception that is no
\* Exception left it.  A run ended at st.subheader before the call is none
\* of these.
EnsureSessionStep ==
    /\ pc = "chat"
    /\ \/ pc' \in {"quick_query", "init_error"}
       \/ last'.message = Some("BaseException")

\* C1 as claimed: every initialize_agent_if_needed call with a well-formed
\* credential reuses the stored handle, building nothing, when a handle
\* exists, agent_initialized is set and last_config is the call's
\* (credential, model, temperature); otherwise a new handle is built and
\* stored in place of the old one, and last_config becomes the call's tuple.
C1_AsClaimed ==
    [][(EnsureSessionStep /\ startswith(config[1][1], KeyPrefix)) =>
          LET c == config[1]
          IN  IF agent # None /\ agent_initialized /\ last_config = Some(c)
              THEN /\ ~last'.built
                   /\ agent' = agent
                   /\ agent_initialized'
                   /\ last_config' = last_config
                   /\ pc' = "quick_query"
              ELSE /\ last'.built
                   /\ agent' # None
                   /\ <<agent'[1].api_key, agent'[1].model, agent'[1].temperature>> = c
                   /\ agent'[1].agent # None
                   /\ agent'[1].agent[1].df = df[1]
                   /\ agent_initialized'
                   /\ last_config' = Some(c)
                   /\ pc' = "quick_query"]_vars

\* C1: every initialize_agent_if_needed call with a well-formed credential
\* reuses the stored handle, calling no constructor, when a handle exists,
\* agent_initialized is set and last_config is the call's (credential,
\* model, temperature).  Otherwise it calls the constructors: when they
\* return, the new handle, built from the call's credential, model,
\* temperature and DataFrame, is stored in place of the old one with
\* last_config set to the call's tuple, and the run goes on; when they do
\* not, agent, agent_initialized and last_config stay as they were and the
\* run ends with no question handled.
C1_EnsureSession ==
    [][/\ (EnsureSessionStep /\ startswith(config[1][1], KeyPrefix)) =>
             LET c == config[1]
             IN  IF agent # None /\ agent_initialized /\ last_config = Some(c)
                 THEN /\ ~last'.built
                      /\ agent' = agent
                      /\ agent_initialized'
                      /\ last_config' = last_config
                      /\ pc' = "quick_query"
                 ELSE /\ last'.built
                      /\ IF pc' = "quick_query"
                         THEN /\ agent' # None
                              /\ <<agent'[1].api_key, agent'[1].model,
                                    agent'[1].temperature>> = c
                              /\ agent'[1].agent # None
                              /\ agent'[1].agent[1].df = df[1]
                              /\ agent_initialized'
                              /\ last_config' = Some(c)
                         ELSE /\ UNCHANGED <<agent, agent_initialized, last_config>>
                              /\ pc' \in {"init_error", "idle"}
       /\ pc = "init_error" =>
             /\ pc' = "idle"
             /\ UNCHANGED <<agent, agent_initialized, last_config, history,
                            plot_counter>>]_vars

\* a handle was built in the middle of a conversation: the configuration changed
C1_Witness ==
    /\ pc = "quick_query"
    /\ last.built
    /\ history # <<>>
    /\ last_config = Some(<<agent[1].api_key, agent[1].model, agent[1].temperature>>)

\* C7: initialize_agent raises for an empty credential and for one without
\* the prefix gsk_ before it reaches the constructors of the engine handle,
\* whatever the constructors would do; an empty credential ends the run in
\* main(), and from the call of initialize_agent_if_needed with a malformed
\* one to the end of the run no constructor is called, agent,
\* agent_initialized and last_config stay as they were and no question is
\* dispatched: the call goes to its except branch and the run ends there,
\* with the failure shown unless the run is ended at st.error.
C7_InvalidCredential ==
    /\ \A k \in Credentials : \A m \in Models : \A t \in Temperatures :
       \A constructors \in ConstructorOutcomes :
          ~(k # <<>> /\ startswith(k, KeyPrefix)) =>
              LET r == initialize_agent(DataAnalysisAgent(k, m, t),
                                        DataFrame(SalesCsv, "utf-8", ","),
                                        constructors)
              IN  r.raised /\ ~r.exits /\ ~r.constructed /\ r.self.agent = None
    /\ [][/\ (pc = "main" /\ pc' = "chat") => config'[1][1] # <<>>
          /\ (pc = "chat" /\ ~startswith(config[1][1], KeyPrefix)) =>
                /\ ~last'.built
                /\ EnsureSessionStep => pc' = "init_error"
                /\ pc' \in {"init_error", "idle"}
                /\ UNCHANGED <<agent, agent_initialized, last_config>>
                /\ UNCHANGED <<history, plot_counter, files, pending>>
          /\ pc = "init_error" =>
                /\ pc' = "idle"
                /\ \/ last' = [last EXCEPT !.message = Some("Failed to initialize agent")]
                   \/ last' = Quiet
                /\ UNCHANGED <<agent, agent_initialized, last_config>>
                /\ UNCHANGED <<history, plot_counter, files, pending>>]_vars

\* a malformed credential was refused while a handle with a conversation is stored
C7_Witness ==
    /\ pc = "idle"
    /\ last.message = Some("Failed to initialize agent")
    /\ ~last.built
    /\ agent # None
    /\ history # <<>>

\* the step is clear_conversation, run to its end
ResetStep == pc = "clear_button" /\ pc' = "rerun"

\* the step is clear_conversation left by an exception of os.remove
ResetRaisedStep ==
    pc = "clear_button" /\ pc' = "idle" /\ last'.message = Some("OSError")

\* the step is the first statement of _handle_user_query
UserTurnStep == pc \in {"quick_query", "chat_input"} /\ history' # history

\* the step is DataAnalysisAgent.query up to the engine call
AskStep == pc = "user_turn" /\ pc' = "engine"

\* the step is the end of _handle_user_query
AnswerStep == pc = "response" /\ history' # history

\* a question is being handled
InQuestion == pc \in {"user_turn", "engine", "response"}

\* C3: agent.query advances plot_counter by exactly one before the
\* instruction goes to the engine, and the instruction names the file
\* temp_plot_<counter>.png; the engine's answer or exception, a handle
\* rebuilt because the configuration changed and every other step but
\* clear_conversation leave the counter alone, so the numbers of a
\* conversation strictly increase.
C3_PlotCounter ==
    [][/\ IF ResetStep \/ ResetRaisedStep THEN plot_counter' = 0
          ELSE IF AskStep
          THEN /\ plot_counter' = plot_counter + 1
               /\ pending'[1].plot_filename = <<"temp_plot", plot_counter + 1>>
               /\ pending'[1].instruction.savefig = <<"temp_plot", plot_counter + 1>>
          ELSE plot_counter' = plot_counter
       /\ (EnsureSessionStep /\ last'.built) => plot_counter' = plot_counter
       /\ pc = "engine" => plot_counter' = plot_counter]_vars

\* two questions were asked, the engine raised on the first, and the
\* handle has just been rebuilt for a changed temperature: the counter is
\* still 2
C3_Witness ==
    /\ pc = "quick_query"
    /\ last.built
    /\ plot_counter = 2
    /\ Len(history) = 4
    /\ history[2].content = ErrorPrefix \o <<"x">>
    /\ last_config = Some(<<agent[1].api_key, agent[1].model, agent[1].temperature>>)

\* C9: history is append-only between resets: every step but
\* clear_conversation keeps the turns there are as a prefix; a question
\* appends one user turn and then one assistant turn, so the turns
\* alternate user, assistant, and the length is even unless a question is
\* being handled.
C9_HistoryAppendOnly ==
    /\ [](/\ \A i \in 1..Len(history) :
                history[i].role = IF i % 2 = 1 THEN "user" ELSE "assistant"
          /\ ~InQuestion => Len(history) % 2 = 0)
    /\ [][IF ResetStep \/ ResetRaisedStep THEN history' = <<>>
          ELSE /\ Len(history') >= Len(history)
               /\ SubSeq(history', 1, Len(history)) = history]_vars

\* a run was ended after the user turn was stored and before the assistant
\* turn was: the next question follows a user turn
C9_Witness ==
    /\ pc = "idle"
    /\ Len(history) = 3
    /\ history[1].role = "user"
    /\ history[2].role = "user"
    /\ history[3].role = "assistant"

\* C4: every clear_conversation, however it ends, leaves an empty history,
\* no stored handle, agent_initialized false, plot_counter 0 and no file
\* temp_plot_i.png with i below MAX_PLOT_FILES; it removes nothing else, so
\* numbered files from MAX_PLOT_FILES on stay.
C4_Reset ==
    [][(ResetStep \/ ResetRaisedStep) =>
          /\ history' = <<>>
          /\ agent' = None
          /\ ~agent_initialized'
          /\ plot_counter' = 0
          /\ \A i \in 0..(MAX_PLOT_FILES - 1) : <<"temp_plot", i>> \notin files'
          /\ files' \subseteq files
          /\ \A f \in files : (Len(f) = 2 /\ f[2] >= MAX_PLOT_FILES) => f \in files']_vars

\* after a reset of a conversation that had files below and from MAX_PLOT_FILES on
C4_Witness ==
    /\ pc = "rerun"
    /\ history = <<>>
    /\ agent = None
    /\ plot_counter = 0
    /\ files = {<<"temp_plot", MAX_PLOT_FILES>>}

\* the k-th (encoding, delimiter) combination, k in 1..9, encodings outermost
Combination(k) ==
    <<ENCODINGS_TO_TRY[((k - 1) \div Len(DELIMITERS_TO_TRY)) + 1],
      DELIMITERS_TO_TRY[((k - 1) % Len(DELIMITERS_TO_TRY)) + 1]>>

Combinations == 1..(Len(ENCODINGS_TO_TRY) * Len(DELIMITERS_TO_TRY))

\* the combinations under which read_csv makes a table with rows and columns of raw
UsableCombinations(raw) ==
    {k \in Combinations :
        LET t == read_csv(raw, Combination(k)[1], Combination(k)[2])
        IN  t.ok /\ t.rows > 0 /\ t.cols > 0}

Earliest(K) == CHOOSE k \in K : \A j \in K : k <= j

\* C5: of the combinations (utf-8, latin1, cp1252) x (comma, semicolon,
\* tab), encodings outermost, that give a table with rows and columns,
\* validate_csv and load_dataframe_from_session both settle on the earliest:
\* for every file in the uploader, and for the DataFrame main() hands on.
C5_FirstCombinationWins ==
    /\ (uploaded_file # None /\ UsableCombinations(uploaded_file[1]) # {}) =>
          LET raw == uploaded_file[1]
              first == Combination(Earliest(UsableCombinations(raw)))
              v == validate_csv(raw)
              l == load_dataframe_from_session(Some(raw))
          IN  /\ v.encoding = Some(first[1])
              /\ v.delimiter = Some(first[2])
              /\ l.error = None
              /\ <<l.df[1].encoding, l.df[1].delimiter>> = first
    /\ pc = "chat" =>
          LET raw == uploaded_file_content[1]
              first == Combination(Earliest(UsableCombinations(raw)))
          IN  /\ UsableCombinations(raw) # {}
              /\ df # None
              /\ df[1].raw = raw
              /\ <<df[1].encoding, df[1].delimiter>> = first
              /\ <<df[1].rows, df[1].cols>> =
                     <<read_csv(raw, first[1], first[2]).rows,
                       read_csv(raw, first[1], first[2]).cols>>

\* main() hands on the latin1/semicolon table of a file that is not UTF-8,
\* fails under the comma and gives another table under the tab
C5_Witness ==
    /\ pc = "chat"
    /\ <<df[1].encoding, df[1].delimiter>> = <<"latin1", ";">>
    /\ df[1].rows = MAX_ROWS
    /\ LET raw == uploaded_file_content[1]
       IN  /\ "cp1252" \notin raw.undecodable
           /\ raw.parse["\t"].ok
           /\ raw.parse["\t"].rows = 1

\* C6: a file whose earliest usable combination gives up to MAX_ROWS rows is
\* accepted and stored; one whose earliest usable combination gives more is
\* refused with "File is too large" and nothing is stored, whatever later
\* combinations would give; so the stored content, and the DataFrame main()
\* hands to the summary and to the chat, never have more than MAX_ROWS rows.
C6_RowCeiling ==
    /\ (pc = "clear_button" /\ uploaded_file # None) =>
          LET raw == uploaded_file[1]
              usable == UsableCombinations(raw)
          IN  IF usable = {}
              THEN /\ uploaded_file_content = None
                   /\ last.message = Some("Could not parse CSV file")
              ELSE LET first == Combination(Earliest(usable))
                       t == read_csv(raw, first[1], first[2])
                   IN  IF t.rows <= MAX_ROWS
                       THEN /\ uploaded_file_content = Some(raw)
                            /\ last.message = Some("File validation successful")
                       ELSE /\ uploaded_file_content = None
                            /\ last.message = Some("File is too large")
    /\ uploaded_file_content # None =>
          LET l == load_dataframe_from_session(uploaded_file_content)
          IN  l.error = None /\ l.df[1].rows <= MAX_ROWS
    /\ df # None => df[1].rows <= MAX_ROWS /\ get_data_summary(df[1]).rows <= MAX_ROWS

\* a file with MAX_ROWS + 1 rows under the comma was refused although the
\* semicolon would give MAX_ROWS rows
C6_Witness ==
    /\ pc = "clear_button"
    /\ uploaded_file # None
    /\ last.message = Some("File is too large")
    /\ uploaded_file_content = None
    /\ uploaded_file[1].undecodable = {}
    /\ uploaded_file[1].parse[","].rows = MAX_ROWS + 1
    /\ uploaded_file[1].parse[";"].rows = MAX_ROWS

\* the QueryResult of `last' has been stored as the assistant turn
Stored == last.response # None /\ pc # "response"

\* the engine returned a text with the iteration-limit marker in it
MarkerResponse ==
    /\ last.outcome # None
    /\ ~last.outcome[1].raises
    /\ \E i \in 1..Len(last.outcome[1].text) : last.outcome[1].text[i] = MARKER

\* text without its marker tokens
WithoutMarker(text) == SelectSeq(text, LAMBDA tok : tok # MARKER)

\* text from its first to its last token that is not whitespace
Trimmed(text) ==
    LET solid == {i \in 1..Len(text) : text[i] # " "}
    IN  IF solid = {} THEN <<>>
        ELSE SubSeq(text, CHOOSE i \in solid : \A j \in solid : i <= j,
                          CHOOSE i \in solid : \A j \in solid : i >= j)

\* C2: a returned text with the marker becomes a QueryResult whose output
\* is the softened message followed by the text without the marker, and
\* whose success flag is false.
C2_MarkerResponse ==
    MarkerResponse =>
        LET r == last.response[1]
            rest == Trimmed(WithoutMarker(last.outcome[1].text))
        IN  /\ SubSeq(r.output, 1, Len(AnalysisPrefix) + Len(rest)) = AnalysisPrefix \o rest
            /\ r.success = FALSE

\* the engine returned partial text around the marker
C2_Witness ==
    /\ MarkerResponse
    /\ Stored
    /\ last.outcome[1].text = <<"x", MARKER>>
    /\ last.response[1].success
    /\ last.response[1].output = AnalysisPrefix \o <<"x">> \o Tip

\* the engine left invoke with an exception
EngineRaised == last.outcome # None /\ last.outcome[1].raises

\* C8: every exception of the engine becomes a QueryResult with success
\* false and no image, whose output is the softened message when the
\* exception text has the marker and "Error processing query: " plus the
\* text otherwise; the run goes on to store it as the assistant turn, and
\* the question is not sent to the engine again: a parked quick query that
\* failed is un-parked.
C8_EngineException ==
    /\ [](EngineRaised =>
             /\ last.response # None
             /\ LET r == last.response[1]
                    msg == last.outcome[1].text
                IN  /\ r.success = FALSE
                    /\ r.plot_path = None
                    /\ r.output = IF \E i \in 1..Len(msg) : msg[i] = MARKER
                                  THEN SoftenedError
                                  ELSE ErrorPrefix \o msg
                    /\ Stored => history[Len(history)] =
                                     [role |-> "assistant", content |-> r.output])
    /\ [][/\ (pc = "response" /\ ~pending[1].response.success) => AnswerStep
          /\ (pc = "stored" /\ ~last.response[1].success) => quick_query' = None]_vars

\* the engine saved the plot and then raised an Exception with the marker
\* in the text; the softened message is stored as the assistant turn
C8_Witness ==
    /\ EngineRaised
    /\ Stored
    /\ \E i \in 1..Len(last.outcome[1].text) : last.outcome[1].text[i] = MARKER
    /\ <<"temp_plot", plot_counter>> \in files
    /\ last.response[1].output = SoftenedError
    /\ "plot_path" \notin DOMAIN history[Len(history)]

\* C10: after the engine returned, the image of the QueryResult is this
\* question's numbered file if it exists, else temp_plot.png if that
\* exists, else none; the assistant turn, once stored, carries the same
\* image.
C10_PlotProbe ==
    (last.outcome # None /\ ~last.outcome[1].raises) =>
        LET r == last.response[1]
            numbered == <<"temp_plot", plot_counter>>
            turn == history[Len(history)]
        IN  /\ r.plot_path = IF numbered \in files THEN <<numbered>>
                             ELSE IF <<"temp_plot">> \in files THEN << <<"temp_plot">> >>
                             ELSE <<>>
            /\ Stored =>
                  IF r.plot_path = <<>>
                  THEN "plot_path" \notin DOMAIN turn
                  ELSE "plot_path" \in DOMAIN turn /\ turn.plot_path = r.plot_path[1]

\* both files exist and the numbered one is the image
C10_Witness ==
    /\ last.outcome # None
    /\ ~last.outcome[1].raises
    /\ last.outcome[1].saves = {"numbered", "legacy"}
    /\ {<<"temp_plot", plot_counter>>, <<"temp_plot">>} \subseteq files
    /\ last.response[1].plot_path = << <<"temp_plot", plot_counter>> >>

\* the engine is working on a question; `pending' holds the instruction and
\* the engine handle self.agent it was sent to
Dispatched == pc = "engine"

\* C11: whenever a question is dispatched to the engine, the handle that
\* receives it was built over the DataFrame main() loaded in this run; in
\* particular not over the table of an earlier upload when credential,
\* model and temperature are what they were.
C11_HandleOverCurrentDataset ==
    Dispatched => pending[1].engine.df = df[1]

\* a question about survey.csv is with a handle built over sales.csv, the
\* configuration being the one the handle was built with
C11_Witness ==
    /\ Dispatched
    /\ df[1].raw = SurveyCsv
    /\ pending[1].engine.df.raw = SalesCsv
    /\ last_config = Some(<<pending[1].engine.api_key, pending[1].engine.model,
                            pending[1].engine.temperature>>)
    /\ pending[1].instruction.shape = <<MAX_ROWS, 2>>

\* the file the engine wrote while answering the question just handled
WrittenForThisQuestion(path) ==
    \/ path = plot_filename(plot_counter) /\ "numbered" \in last.outcome[1].saves
    \/ path = LegacyPlot /\ "legacy" \in last.outcome[1].saves

\* C12: the image attached to an assistant turn is a file the engine wrote
\* while answering that question; a question whose engine run saved nothing
\* gets no image, whatever earlier questions and resets left on disk.
C12_ImageOfThisQuestion ==
    Stored =>
        LET turn == history[Len(history)]
        IN  /\ "plot_path" \in DOMAIN turn => WrittenForThisQuestion(turn.plot_path)
            /\ (~last.outcome[1].raises /\ last.outcome[1].saves = {}) =>
                   "plot_path" \notin DOMAIN turn

\* the engine saved nothing for this question and the turn shows the
\* temp_plot.png an earlier question left behind
C12_Witness ==
    /\ Stored
    /\ last.outcome[1].saves = {}
    /\ "plot_path" \in DOMAIN history[Len(history)]
    /\ history[Len(history)].plot_path = LegacyPlot
    /\ last.response[1].success

\* (credential, model, temperature) of a DataAnalysisAgent object
HandleConfig(a) == <<a.api_key, a.model, a.temperature>>

\* the stored object holds an engine handle built from the object's own fields
HandleBuilt(a) ==
    /\ a.agent # None
    /\ <<a.agent[1].api_key, a.agent[1].model, a.agent[1].temperature>> = HandleConfig(a)

\* C13: in every state agent_initialized is set exactly when a handle is
\* stored, and the stored handle was built with last_config; when
\* initialize_agent_if_needed lets the run go on, the stored handle is one
\* built with the configuration selected in this run, it stays stored
\* until the run ends, and it is the handle every question of the run is
\* sent to.  A failed re-initialisation keeps the old handle and the old
\* last_config and ends the run; a reset keeps last_config and drops the
\* handle.
C13_HandleMatchesConfig ==
    /\ [](/\ agent_initialized <=> agent # None
          /\ (agent # None) =>
                 (/\ last_config = Some(HandleConfig(agent[1]))
                  /\ HandleBuilt(agent[1]))
          /\ Dispatched => (pending[1].engine = agent[1].agent[1]))
    /\ [][/\ (EnsureSessionStep /\ pc' = "quick_query") =>
                (/\ agent' # None
                 /\ HandleConfig(agent'[1]) = config[1])
          /\ (EnsureSessionStep /\ pc' # "quick_query") =>
                (/\ pc' \in {"init_error", "idle"}
                 /\ UNCHANGED <<agent, agent_initialized, last_config>>)
          /\ pc = "init_error" => pc' = "idle"
          /\ (pc \in {"init_error", "quick_query", "chat_input", "stored"} \/ InQuestion) =>
                UNCHANGED <<agent, agent_initialized, last_config>>
          /\ ResetStep =>
                (/\ agent' = None
                 /\ UNCHANGED last_config)]_vars

\* a re-initialisation has just failed and the handle that answered the
\* questions of the conversation is still stored, with its last_config
C13_Witness ==
    /\ last.message = Some("Failed to initialize agent")
    /\ pc = "idle"
    /\ agent # None
    /\ agent_initialized
    /\ last_config = Some(HandleConfig(agent[1]))
    /\ Len(history) = 2 * MaxAskSession

====
